---- MODULE Spec2Model ----
(***************************************************************************)
(* State-machine model of the sso credential service: the gRPC handlers    *)
(* (serverAPI.Login / Register / IsAdmin), the authentication service      *)
(* (Auth.Login / Register / IsAdmin), the SQLite account directory, the    *)
(* Argon2 password hasher and the RS256 token issuer.                      *)
(*                                                                         *)
(* Go values are modelled as follows.                                      *)
(*   error    a sequence of strings: the chain built by fmt.Errorf("%w"),  *)
(*            outermost first, the sentinel last; nil is <<>>.             *)
(*   []byte   a record [len, val]: its length and an abstract content, a    *)
(*            sequence.                                                    *)
(*   string   a TLA+ string; the token string is a sequence, "" is <<>>.   *)
(*   time     an integer number of clock ticks, TicksPerSecond per second. *)
(***************************************************************************)
EXTENDS Integers, Sequences, FiniteSets, TLC

----------------------------------------------------------------------------
(* Bounds of the model *)

MaxTime == 3
TicksPerSecond == 2

(* Program constants *)

saltLength == 16
keyLength == 32

----------------------------------------------------------------------------
(* Inputs the callers and the environment may supply *)

Emails == {"", "a@x.com", "b@x.com"}
Passwords == {"", "secret123", "wrong"}
(* What rand.Read may produce.  The handlers never inspect a salt's content, *)
(* so one value stands for all of them here.                                *)
SaltValues == {"s1"}
RandOutcomes == SaltValues \cup {"rand_err"}
AppIDs == 0..4
UserIDs == 0..3
Times == 0..MaxTime

(* time.Duration values the service may be constructed with: auth.New       *)
(* stores tokenTTL unchecked.  One tick is a fraction of a second.          *)
TTLs == {-TicksPerSecond, 0, 1, TicksPerSecond}

(* Outcomes of one directory call: <<step that fails, kind of failure>>.    *)
NoFault == <<"none", "ok">>
QueryFaults == {NoFault, <<"prepare", "deadline">>, <<"scan", "io">>}
SaveFaults == {NoFault, <<"prepare", "io">>, <<"exec", "deadline">>, <<"lastid", "io">>}

----------------------------------------------------------------------------
(* Errors *)

Nil == <<>>

storage_ErrUserExists == "storage.ErrUserExists"
storage_ErrUserNotFound == "storage.ErrUserNotFound"
storage_ErrAppNotFound == "storage.ErrAppNotFound"

ErrInvalidCredentials == "auth.ErrInvalidCredentials"
ErrInvalidAppID == "auth.ErrInvalidAppID"
ErrUserExists == "auth.ErrUserExists"
ErrUserNotFound == "auth.ErrUserNotFound"

context_DeadlineExceeded == "context.DeadlineExceeded"

StorageKinds == {storage_ErrUserExists, storage_ErrUserNotFound, storage_ErrAppNotFound}
DomainKinds == {ErrInvalidCredentials, ErrInvalidAppID, ErrUserExists, ErrUserNotFound}

(* fmt.Errorf("%s: %w", op, err) *)
Wrap(op, err) == <<op>> \o err

(* errors.Is(err, target) *)
Is(err, target) == \E i \in 1..Len(err) : err[i] = target

(* The error a database/sql call returns when it fails: ctx.Err() once the  *)
(* deadline of the call's context has expired, a driver error otherwise.    *)
DriverErr(kind) ==
    IF kind = "deadline" THEN <<context_DeadlineExceeded>> ELSE <<"sqlite3.Error">>

----------------------------------------------------------------------------
(* Password hasher *)

Bytes(n, v) == [len |-> n, val |-> v]
NoBytes == Bytes(0, <<>>)
NoPassData == [Hash |-> NoBytes, Salt |-> NoBytes]

(* argon2.IDKey(password, salt, timeCost, memoryCost, parallelism, keyLen): *)
(* a key of keyLen bytes determined by password and salt, taken to be       *)
(* collision free.                                                          *)
IDKey(password, salt, keyLen) == Bytes(keyLen, <<password, salt.val>>)

(* A comparison of the lengths alone *)
ConstantTimeCompare_Lengths(x, y) == x.len = y.len

(* subtle.ConstantTimeCompare(x, y) = 1 *)
ConstantTimeCompare(x, y) == x.len = y.len /\ x.val = y.val

(* rnd: what rand.Read produces for this call *)
HashPassword(password, rnd) ==
    IF password = ""
    THEN [data |-> NoPassData, err |-> <<"password cannot be empty">>]
    ELSE IF rnd = "rand_err"
    THEN [data |-> NoPassData, err |-> <<"failed to generate salt", "rand.Read">>]
    ELSE LET salt == Bytes(saltLength, <<rnd>>)
         IN  [data |-> [Hash |-> IDKey(password, salt, keyLength), Salt |-> salt],
              err |-> Nil]

(* ComparePassword that checks the password before the lengths, and the    *)
(* length of the salt not at all                                            *)
ComparePassword_NoSaltCheck(password, salt, originalHash) ==
    IF password = "" THEN <<"password cannot be empty">>
    ELSE IF originalHash.len # keyLength THEN <<"invalid hash length">>
    ELSE IF ~ConstantTimeCompare(originalHash, IDKey(password, salt, keyLength))
    THEN <<"passwords do not match">>
    ELSE Nil

ComparePassword(password, salt, originalHash) ==
    IF salt.len # saltLength THEN <<"invalid salt length">>
    ELSE IF originalHash.len # keyLength THEN <<"invalid hash length">>
    ELSE IF password = "" THEN <<"password cannot be empty">>
    ELSE IF ~ConstantTimeCompare(originalHash, IDKey(password, salt, keyLength))
    THEN <<"passwords do not match">>
    ELSE Nil

----------------------------------------------------------------------------
(* Account directory (SQLite) *)

NoUser == [ID |-> 0, Email |-> "", PasswordHash |-> NoBytes, PasswordSalt |-> NoBytes]
NoPem == [block |-> FALSE, rest |-> 0, der |-> "", signable |-> FALSE, key |-> 0]
NoApp == [ID |-> 0, Name |-> "", PrivateKey |-> NoPem, PublicKey |-> 0]

(* INTEGER PRIMARY KEY: the rowid of a new row is one more than the largest *)
NextRowID(tbl) ==
    IF tbl = {} THEN 1
    ELSE (CHOOSE m \in {u.id : u \in tbl} : \A u \in tbl : u.id <= m) + 1

(* SaveUser with INSERT OR REPLACE: the row holding the email is replaced *)
SaveUser_Replace(tbl, email, passwordHash, passwordSalt, fault) ==
    LET op == "storage.sqlite.SaveUser"
        row == [id |-> NextRowID(tbl), email |-> email, password_hash |-> passwordHash,
                password_salt |-> passwordSalt, is_admin |-> FALSE]
        kept == {u \in tbl : u.email # email}
    IN  IF fault[1] \in {"prepare", "exec"}
        THEN [id |-> 0, err |-> Wrap(op, DriverErr(fault[2])), users |-> tbl]
        ELSE IF fault[1] = "lastid"
        THEN [id |-> 0, err |-> Wrap(op, DriverErr(fault[2])), users |-> kept \cup {row}]
        ELSE [id |-> row.id, err |-> Nil, users |-> kept \cup {row}]

SaveUser(tbl, email, passwordHash, passwordSalt, fault) ==
    LET op == "storage.sqlite.SaveUser"
        row == [id |-> NextRowID(tbl), email |-> email, password_hash |-> passwordHash,
                password_salt |-> passwordSalt, is_admin |-> FALSE]
    IN  IF fault[1] = "prepare"
        THEN [id |-> 0, err |-> Wrap(op, DriverErr(fault[2])), users |-> tbl]
        ELSE IF fault[1] = "exec"
        THEN [id |-> 0, err |-> Wrap(op, DriverErr(fault[2])), users |-> tbl]
        ELSE IF \E u \in tbl : u.email = email
        THEN [id |-> 0, err |-> Wrap(op, <<storage_ErrUserExists>>), users |-> tbl]
        ELSE IF fault[1] = "lastid"
        THEN [id |-> 0, err |-> Wrap(op, DriverErr(fault[2])), users |-> tbl \cup {row}]
        ELSE [id |-> row.id, err |-> Nil, users |-> tbl \cup {row}]

(* User without the sql.ErrNoRows case: a missing row is a driver error *)
User_NoRowsUnmapped(tbl, email, fault) ==
    LET op == "storage.sqlite.User"
    IN  IF fault[1] \in {"prepare", "scan"}
        THEN [user |-> NoUser, err |-> Wrap(op, DriverErr(fault[2]))]
        ELSE IF ~\E u \in tbl : u.email = email
        THEN [user |-> NoUser, err |-> Wrap(op, <<"sql.ErrNoRows">>)]
        ELSE LET u == CHOOSE u \in tbl : u.email = email
             IN  [user |-> [ID |-> u.id, Email |-> u.email,
                            PasswordHash |-> u.password_hash,
                            PasswordSalt |-> u.password_salt],
                  err |-> Nil]

User(tbl, email, fault) ==
    LET op == "storage.sqlite.User"
    IN  IF fault[1] \in {"prepare", "scan"}
        THEN [user |-> NoUser, err |-> Wrap(op, DriverErr(fault[2]))]
        ELSE IF ~\E u \in tbl : u.email = email
        THEN [user |-> NoUser, err |-> Wrap(op, <<storage_ErrUserNotFound>>)]
        ELSE LET u == CHOOSE u \in tbl : u.email = email
             IN  [user |-> [ID |-> u.id, Email |-> u.email,
                            PasswordHash |-> u.password_hash,
                            PasswordSalt |-> u.password_salt],
                  err |-> Nil]

(* IsAdmin whose query has no WHERE clause: the flag of the first row *)
IsAdmin_FirstRow(tbl, userID, fault) ==
    LET op == "storage.sqlite.IsAdmin"
    IN  IF fault[1] \in {"prepare", "scan"}
        THEN [isAdmin |-> FALSE, err |-> Wrap(op, DriverErr(fault[2]))]
        ELSE IF ~\E u \in tbl : u.id = userID
        THEN [isAdmin |-> FALSE, err |-> Wrap(op, <<storage_ErrUserNotFound>>)]
        ELSE [isAdmin |-> (CHOOSE u \in tbl : \A v \in tbl : u.id <= v.id).is_admin,
              err |-> Nil]

IsAdmin(tbl, userID, fault) ==
    LET op == "storage.sqlite.IsAdmin"
    IN  IF fault[1] \in {"prepare", "scan"}
        THEN [isAdmin |-> FALSE, err |-> Wrap(op, DriverErr(fault[2]))]
        ELSE IF ~\E u \in tbl : u.id = userID
        THEN [isAdmin |-> FALSE, err |-> Wrap(op, <<storage_ErrUserNotFound>>)]
        ELSE [isAdmin |-> (CHOOSE u \in tbl : u.id = userID).is_admin, err |-> Nil]

App(tbl, appID, fault) ==
    LET op == "storage.sqlite.App"
    IN  IF fault[1] \in {"prepare", "scan"}
        THEN [app |-> NoApp, err |-> Wrap(op, DriverErr(fault[2]))]
        ELSE IF ~\E a \in tbl : a.id = appID
        THEN [app |-> NoApp, err |-> Wrap(op, <<storage_ErrAppNotFound>>)]
        ELSE LET a == CHOOSE a \in tbl : a.id = appID
             IN  [app |-> [ID |-> a.id, Name |-> a.name, PrivateKey |-> a.private_key,
                           PublicKey |-> a.public_key],
                  err |-> Nil]

----------------------------------------------------------------------------
(* Key parser and token issuer *)

NoKey == [id |-> 0, signable |-> FALSE]

(* keygen.ParseRSAPrivateKey.  A PEM text is modelled by what pem.Decode    *)
(* and x509.ParsePKCS1PrivateKey find in it: whether a block decodes, how   *)
(* many bytes follow the block, and the encoding of the block's bytes.      *)
(* ParseRSAPrivateKey without the check of the bytes after the block *)
ParseRSAPrivateKey_AllowTrailing(pemKey) ==
    IF ~pemKey.block
    THEN [key |-> NoKey, err |-> <<"failed to parse PEM block containing the private key">>]
    ELSE IF pemKey.der # "pkcs1"
    THEN [key |-> NoKey, err |-> <<"failed to parse private key", "x509">>]
    ELSE [key |-> [id |-> pemKey.key, signable |-> pemKey.signable], err |-> Nil]

ParseRSAPrivateKey(pemKey) ==
    IF ~pemKey.block
    THEN [key |-> NoKey, err |-> <<"failed to parse PEM block containing the private key">>]
    ELSE IF pemKey.rest > 0
    THEN [key |-> NoKey, err |-> <<"unexpected data after PEM block">>]
    ELSE IF pemKey.der # "pkcs1"
    THEN [key |-> NoKey, err |-> <<"failed to parse private key", "x509">>]
    ELSE [key |-> [id |-> pemKey.key, signable |-> pemKey.signable], err |-> Nil]

(* Time.Unix(): whole seconds since the epoch, rounded down *)
Unix(t) == t \div TicksPerSecond

(* NewToken with the subject taken from the app instead of the user *)
NewToken_WrongSubject(user, app, duration, t) ==
    LET claims == [uid |-> app.ID, email |-> user.Email, app_id |-> app.ID,
                   exp |-> Unix(t + duration)]
        pk == ParseRSAPrivateKey(app.PrivateKey)
    IN  IF pk.err # Nil
        THEN [token |-> <<>>, err |-> Wrap("failed to parse private key", pk.err)]
        ELSE IF ~pk.key.signable
        THEN [token |-> <<>>, err |-> <<"failed to sign token", "rsa">>]
        ELSE [token |-> <<[alg |-> "RS256", claims |-> claims, sig |-> pk.key.id]>>,
              err |-> Nil]

(* jwt.NewToken(user, app, duration), called when the clock reads t.        *)
(* The token string is <<>> ("") or one signed token.                       *)
NewToken(user, app, duration, t) ==
    LET claims == [uid |-> user.ID, email |-> user.Email, app_id |-> app.ID,
                   exp |-> Unix(t + duration)]
        pk == ParseRSAPrivateKey(app.PrivateKey)
    IN  IF pk.err # Nil
        THEN [token |-> <<>>, err |-> Wrap("failed to parse private key", pk.err)]
        ELSE IF ~pk.key.signable
        THEN [token |-> <<>>, err |-> <<"failed to sign token", "rsa">>]
        ELSE [token |-> <<[alg |-> "RS256", claims |-> claims, sig |-> pk.key.id]>>,
              err |-> Nil]

----------------------------------------------------------------------------
(* State *)

VARIABLES
    users,       \* rows of table users
    apps,        \* rows of table apps
    tokenTTL,    \* Auth.tokenTTL
    last,        \* the last request handled, its inputs and everything it returned
    inflight,    \* the Register calls of concurrent callers that are under way
    granted,     \* ids of the users made administrators out of band
    probe        \* the last direct call of a library function and its result

vars == <<users, apps, tokenTTL, last, inflight, granted, probe>>

----------------------------------------------------------------------------
(* Authentication service.  fUser, fApp, fSave, fAdmin: the outcome of the  *)
(* directory call; t: what time.Now() reads; rnd: what rand.Read produces.  *)
(* calls: the collaborators invoked, in order.                              *)

(* Login that looks the app up before it checks the credentials *)
Auth_Login_AppFirst(email, password, appID, fUser, fApp, t) ==
    LET op == "Auth.Login"
        ar == App(apps, appID, fApp)
    IN  IF ar.err # Nil
        THEN IF Is(ar.err, storage_ErrAppNotFound)
             THEN [token |-> <<>>, err |-> Wrap(op, <<ErrInvalidCredentials>>),
                   calls |-> <<"App">>]
             ELSE [token |-> <<>>, err |-> Wrap(op, ar.err), calls |-> <<"App">>]
        ELSE LET ur == User(users, email, fUser)
             IN  IF ur.err # Nil
                 THEN IF Is(ur.err, storage_ErrUserNotFound)
                      THEN [token |-> <<>>, err |-> Wrap(op, <<ErrInvalidCredentials>>),
                            calls |-> <<"App", "User">>]
                      ELSE [token |-> <<>>, err |-> Wrap(op, ur.err),
                            calls |-> <<"App", "User">>]
                 ELSE IF ComparePassword(password, ur.user.PasswordSalt,
                                         ur.user.PasswordHash) # Nil
                 THEN [token |-> <<>>, err |-> Wrap(op, <<ErrInvalidCredentials>>),
                       calls |-> <<"App", "User", "ComparePassword">>]
                 ELSE LET tr == NewToken(ur.user, ar.app, tokenTTL, t)
                      IN  IF tr.err # Nil
                          THEN [token |-> <<>>, err |-> Wrap(op, tr.err),
                                calls |-> <<"App", "User", "ComparePassword", "NewToken">>]
                          ELSE [token |-> tr.token, err |-> Nil,
                                calls |-> <<"App", "User", "ComparePassword", "NewToken">>]

(* Login that reports a failure of ComparePassword other than a mismatch as *)
(* it is                                                                    *)
Auth_Login_ShapeUnmapped(email, password, appID, fUser, fApp, t) ==
    LET op == "Auth.Login"
        ur == User(users, email, fUser)
    IN  IF ur.err # Nil
        THEN IF Is(ur.err, storage_ErrUserNotFound)
             THEN [token |-> <<>>, err |-> Wrap(op, <<ErrInvalidCredentials>>),
                   calls |-> <<"User">>]
             ELSE [token |-> <<>>, err |-> Wrap(op, ur.err), calls |-> <<"User">>]
        ELSE LET ce == ComparePassword(password, ur.user.PasswordSalt, ur.user.PasswordHash)
             IN  IF ce = <<"passwords do not match">>
                 THEN [token |-> <<>>, err |-> Wrap(op, <<ErrInvalidCredentials>>),
                       calls |-> <<"User", "ComparePassword">>]
                 ELSE IF ce # Nil
                 THEN [token |-> <<>>, err |-> Wrap(op, ce),
                       calls |-> <<"User", "ComparePassword">>]
                 ELSE LET ar == App(apps, appID, fApp)
                          tr == NewToken(ur.user, ar.app, tokenTTL, t)
                      IN  IF ar.err # Nil
                          THEN [token |-> <<>>,
                                err |-> IF Is(ar.err, storage_ErrAppNotFound)
                                        THEN Wrap(op, <<ErrInvalidCredentials>>)
                                        ELSE Wrap(op, ar.err),
                                calls |-> <<"User", "ComparePassword", "App">>]
                          ELSE [token |-> tr.token,
                                err |-> IF tr.err # Nil THEN Wrap(op, tr.err) ELSE Nil,
                                calls |-> <<"User", "ComparePassword", "App", "NewToken">>]

Auth_Login(email, password, appID, fUser, fApp, t) ==
    LET op == "Auth.Login"
        ur == User(users, email, fUser)
    IN  IF ur.err # Nil
        THEN IF Is(ur.err, storage_ErrUserNotFound)
             THEN [token |-> <<>>, err |-> Wrap(op, <<ErrInvalidCredentials>>),
                   calls |-> <<"User">>]
             ELSE [token |-> <<>>, err |-> Wrap(op, ur.err), calls |-> <<"User">>]
        ELSE IF ComparePassword(password, ur.user.PasswordSalt, ur.user.PasswordHash) # Nil
        THEN [token |-> <<>>, err |-> Wrap(op, <<ErrInvalidCredentials>>),
              calls |-> <<"User", "ComparePassword">>]
        ELSE LET ar == App(apps, appID, fApp)
             IN  IF ar.err # Nil
                 THEN IF Is(ar.err, storage_ErrAppNotFound)
                      THEN [token |-> <<>>, err |-> Wrap(op, <<ErrInvalidCredentials>>),
                            calls |-> <<"User", "ComparePassword", "App">>]
                      ELSE [token |-> <<>>, err |-> Wrap(op, ar.err),
                            calls |-> <<"User", "ComparePassword", "App">>]
                 ELSE LET tr == NewToken(ur.user, ar.app, tokenTTL, t)
                      IN  IF tr.err # Nil
                          THEN [token |-> <<>>, err |-> Wrap(op, tr.err),
                                calls |-> <<"User", "ComparePassword", "App", "NewToken">>]
                          ELSE [token |-> tr.token, err |-> Nil,
                                calls |-> <<"User", "ComparePassword", "App", "NewToken">>]

(* Register that tries SaveUser a second time when the first attempt fails *)
Auth_Register_Retry(email, password, rnd, fSave) ==
    LET op == "Auth.Register"
        hr == HashPassword(password, rnd)
    IN  IF hr.err # Nil
        THEN [userID |-> 0, err |-> Wrap(op, hr.err), calls |-> <<"HashPassword">>,
              users |-> users]
        ELSE LET sr == SaveUser(users, email, hr.data.Hash, hr.data.Salt, fSave)
             IN  IF sr.err # Nil
                 THEN LET sr2 == SaveUser(sr.users, email, hr.data.Hash, hr.data.Salt,
                                          NoFault)
                      IN  [userID |-> sr2.id,
                           err |-> IF sr2.err # Nil THEN Wrap(op, sr2.err) ELSE Nil,
                           calls |-> <<"HashPassword", "SaveUser", "SaveUser">>,
                           users |-> sr2.users]
                 ELSE [userID |-> sr.id, err |-> Nil,
                       calls |-> <<"HashPassword", "SaveUser">>, users |-> sr.users]

Auth_Register(email, password, rnd, fSave) ==
    LET op == "Auth.Register"
        hr == HashPassword(password, rnd)
    IN  IF hr.err # Nil
        THEN [userID |-> 0, err |-> Wrap(op, hr.err), calls |-> <<"HashPassword">>,
              users |-> users]
        ELSE LET sr == SaveUser(users, email, hr.data.Hash, hr.data.Salt, fSave)
             IN  IF sr.err # Nil
                 THEN [userID |-> 0, err |-> Wrap(op, sr.err),
                       calls |-> <<"HashPassword", "SaveUser">>, users |-> sr.users]
                 ELSE [userID |-> sr.id, err |-> Nil,
                       calls |-> <<"HashPassword", "SaveUser">>, users |-> sr.users]

(* IsAdmin that formats the cause with %v: the chain is lost *)
Auth_IsAdmin_NoWrap(userID, fAdmin) ==
    LET op == "Auth.IsAdmin"
        r == IsAdmin(users, userID, fAdmin)
    IN  IF r.err # Nil
        THEN [isAdmin |-> FALSE, err |-> <<op, "storage error">>, calls |-> <<"IsAdmin">>]
        ELSE [isAdmin |-> r.isAdmin, err |-> Nil, calls |-> <<"IsAdmin">>]

Auth_IsAdmin(userID, fAdmin) ==
    LET op == "Auth.IsAdmin"
        r == IsAdmin(users, userID, fAdmin)
    IN  IF r.err # Nil
        THEN [isAdmin |-> FALSE, err |-> Wrap(op, r.err), calls |-> <<"IsAdmin">>]
        ELSE [isAdmin |-> r.isAdmin, err |-> Nil, calls |-> <<"IsAdmin">>]

----------------------------------------------------------------------------
(* gRPC handlers.  A handler's result: whether the service was invoked, what *)
(* the service returned (core), the status sent to the client, the response  *)
(* fields, and the rows of table users afterwards.                           *)

Status(code, msg) == [code |-> code, msg |-> msg]

NoCore == [token |-> <<>>, userID |-> 0, isAdmin |-> FALSE, err |-> Nil, calls |-> <<>>]

Rejected(msg) ==
    [called |-> FALSE, core |-> NoCore, status |-> Status("InvalidArgument", msg),
     token |-> <<>>, userID |-> 0, isAdmin |-> FALSE, users |-> users]

(* The status a handler answers with for the error the service returned *)

(* LoginStatus that puts the text of the error into the message *)
LoginStatus_Leaky(err) ==
    IF err = Nil THEN Status("OK", "")
    ELSE IF Is(err, ErrInvalidCredentials)
    THEN Status("InvalidArgument", "invalid credentials")
    ELSE IF Is(err, ErrInvalidAppID)
    THEN Status("InvalidArgument", "invalid app id")
    ELSE IF Is(err, context_DeadlineExceeded)
    THEN Status("DeadlineExceeded", "operation timeout")
    ELSE Status("Internal", err[Len(err)])

LoginStatus(err) ==
    IF err = Nil THEN Status("OK", "")
    ELSE IF Is(err, ErrInvalidCredentials)
    THEN Status("InvalidArgument", "invalid credentials")
    ELSE IF Is(err, ErrInvalidAppID)
    THEN Status("InvalidArgument", "invalid app id")
    ELSE IF Is(err, context_DeadlineExceeded)
    THEN Status("DeadlineExceeded", "operation timeout")
    ELSE Status("Internal", "failed to login")

RegisterStatus(err) ==
    IF err = Nil THEN Status("OK", "")
    ELSE IF Is(err, ErrUserExists)
    THEN Status("AlreadyExists", "user already exists")
    ELSE IF Is(err, context_DeadlineExceeded)
    THEN Status("DeadlineExceeded", "operation timeout")
    ELSE Status("Internal", "failed to register user")

IsAdminStatus(err) ==
    IF err = Nil THEN Status("OK", "")
    ELSE IF Is(err, ErrUserNotFound)
    THEN Status("NotFound", "user not found")
    ELSE IF Is(err, context_DeadlineExceeded)
    THEN Status("DeadlineExceeded", "operation timeout")
    ELSE Status("Internal", "failed to check admin status")

serverAPI_Login(email, password, appID, fUser, fApp, t) ==
    IF email = "" THEN Rejected("email is required")
    ELSE IF password = "" THEN Rejected("password is required")
    ELSE IF appID = 0 THEN Rejected("app_id is required")
    ELSE LET r == Auth_Login(email, password, appID, fUser, fApp, t)
             core == [NoCore EXCEPT !.token = r.token, !.err = r.err, !.calls = r.calls]
             st == LoginStatus(r.err)
         IN  [called |-> TRUE, core |-> core, status |-> st,
              token |-> IF r.err = Nil THEN r.token ELSE <<>>,
              userID |-> 0, isAdmin |-> FALSE, users |-> users]

(* The Register handler without the check of the password *)
serverAPI_Register_NoPasswordCheck(email, password, rnd, fSave) ==
    IF email = "" THEN Rejected("email is required")
    ELSE LET r == Auth_Register(email, password, rnd, fSave)
             core == [NoCore EXCEPT !.userID = r.userID, !.err = r.err, !.calls = r.calls]
             st == RegisterStatus(r.err)
         IN  [called |-> TRUE, core |-> core, status |-> st, token |-> <<>>,
              userID |-> IF r.err = Nil THEN r.userID ELSE 0,
              isAdmin |-> FALSE, users |-> r.users]

serverAPI_Register(email, password, rnd, fSave) ==
    IF email = "" THEN Rejected("email is required")
    ELSE IF password = "" THEN Rejected("password is required")
    ELSE LET r == Auth_Register(email, password, rnd, fSave)
             core == [NoCore EXCEPT !.userID = r.userID, !.err = r.err, !.calls = r.calls]
             st == RegisterStatus(r.err)
         IN  [called |-> TRUE, core |-> core, status |-> st, token |-> <<>>,
              userID |-> IF r.err = Nil THEN r.userID ELSE 0,
              isAdmin |-> FALSE, users |-> r.users]

serverAPI_IsAdmin(userID, fAdmin) ==
    IF userID = 0 THEN Rejected("user_id is required")
    ELSE LET r == Auth_IsAdmin(userID, fAdmin)
             core == [NoCore EXCEPT !.isAdmin = r.isAdmin, !.err = r.err, !.calls = r.calls]
             st == IsAdminStatus(r.err)
         IN  [called |-> TRUE, core |-> core, status |-> st, token |-> <<>>,
              userID |-> 0,
              isAdmin |-> IF r.err = Nil THEN r.isAdmin ELSE FALSE, users |-> users]

----------------------------------------------------------------------------
(* The state machine *)

(* Table apps is provisioned out of band (cmd/keygen, or by hand) and is    *)
(* read-only to the service: app 1 holds a usable key, app 2 a key block    *)
(* followed by further data, app 3 a key too short to sign with; app 4 is   *)
(* not provisioned.                                                         *)
GoodPem(k) == [block |-> TRUE, rest |-> 0, der |-> "pkcs1", signable |-> TRUE, key |-> k]

ProvisionedApps ==
    { [id |-> 1, name |-> "Test", private_key |-> GoodPem(1), public_key |-> 1],
      [id |-> 2, name |-> "Trailing",
       private_key |-> [GoodPem(2) EXCEPT !.rest = 1], public_key |-> 2],
      [id |-> 3, name |-> "Short",
       private_key |-> [GoodPem(3) EXCEPT !.signable = FALSE], public_key |-> 3] }

NoRequest ==
    [op |-> "none", email |-> "", password |-> "", appID |-> 0, userID |-> 0,
     rnd |-> "rand_err", faults |-> <<NoFault, NoFault>>, at |-> 0, before |-> {},
     res |-> [called |-> FALSE, core |-> NoCore, status |-> Status("OK", ""),
              token |-> <<>>, userID |-> 0, isAdmin |-> FALSE, users |-> {}]]

NoProbe == [fn |-> "none"]

Called(res, name) == \E i \in 1..Len(res.core.calls) : res.core.calls[i] = name

(* A directory call can fail, and the clock is read, only where the handler *)
(* gets that far: the outcomes offered to a call that is not made are       *)
(* reduced to one.                                                          *)
UserFaults(email, password, appID) ==
    IF serverAPI_Login(email, password, appID, NoFault, NoFault, 0).called
    THEN QueryFaults ELSE {NoFault}

AppFaults(email, password, appID, fUser) ==
    IF Called(serverAPI_Login(email, password, appID, fUser, NoFault, 0), "App")
    THEN QueryFaults ELSE {NoFault}

ClockReads(email, password, appID, fUser, fApp) ==
    IF Called(serverAPI_Login(email, password, appID, fUser, fApp, 0), "NewToken")
    THEN Times ELSE {0}

RandReads(email, password) ==
    IF Called(serverAPI_Register(email, password, "rand_err", NoFault), "HashPassword")
    THEN RandOutcomes ELSE {"rand_err"}

SaveUserFaults(email, password, rnd) ==
    IF Called(serverAPI_Register(email, password, rnd, NoFault), "SaveUser")
    THEN SaveFaults ELSE {NoFault}

AdminFaults(userID) ==
    IF serverAPI_IsAdmin(userID, NoFault).called THEN QueryFaults ELSE {NoFault}

Init ==
    /\ users = {}
    /\ apps = ProvisionedApps
    /\ tokenTTL \in TTLs
    /\ last = NoRequest
    /\ inflight = <<>>
    /\ granted = {}
    /\ probe = NoProbe

Login ==
    \E email \in Emails, password \in Passwords, appID \in AppIDs :
    \E fUser \in UserFaults(email, password, appID) :
    \E fApp \in AppFaults(email, password, appID, fUser) :
    \E t \in ClockReads(email, password, appID, fUser, fApp) :
        LET res == serverAPI_Login(email, password, appID, fUser, fApp, t)
        IN  /\ last' = [NoRequest EXCEPT !.op = "Login", !.email = email,
                          !.password = password, !.appID = appID,
                          !.faults = <<fUser, fApp>>, !.at = t,
                          !.before = users, !.res = res]
            /\ users' = res.users
            /\ UNCHANGED <<apps, tokenTTL, inflight, granted, probe>>

Register ==
    \E email \in Emails, password \in Passwords :
    \E rnd \in RandReads(email, password) :
    \E fSave \in SaveUserFaults(email, password, rnd) :
        LET res == serverAPI_Register(email, password, rnd, fSave)
        IN  /\ last' = [NoRequest EXCEPT !.op = "Register", !.email = email,
                          !.password = password, !.rnd = rnd,
                          !.faults = <<fSave, NoFault>>,
                          !.before = users, !.res = res]
            /\ users' = res.users
            /\ UNCHANGED <<apps, tokenTTL, inflight, granted, probe>>

CheckAdmin ==
    \E userID \in UserIDs :
    \E fAdmin \in AdminFaults(userID) :
        LET res == serverAPI_IsAdmin(userID, fAdmin)
        IN  /\ last' = [NoRequest EXCEPT !.op = "IsAdmin", !.userID = userID,
                          !.faults = <<fAdmin, NoFault>>,
                          !.before = users, !.res = res]
            /\ users' = res.users
            /\ UNCHANGED <<apps, tokenTTL, inflight, granted, probe>>

Next == Login \/ Register \/ CheckAdmin

Spec == Init /\ [][Next]_vars

----------------------------------------------------------------------------
(* Vocabulary of the properties *)

Handled(op) == last.op = op /\ last.res.called

Known(tbl, email) == \E u \in tbl : u.email = email

(* password is the one the user with this email registered with *)
KnownPassword(u, password) ==
    u.password_hash = IDKey(password, u.password_salt, keyLength)

RightPassword(tbl, email, password) ==
    \E u \in tbl : u.email = email /\ KnownPassword(u, password)

WrongPassword(tbl, email, password) ==
    \E u \in tbl : u.email = email /\ ~KnownPassword(u, password)

Provisioned(appID) == \E a \in apps : a.id = appID

NoFaults == last.faults = <<NoFault, NoFault>>

DeadlineExpired == \E i \in 1..2 : last.faults[i][2] = "deadline"

(* What the client of a Login call can observe *)
CallerView(res) == [err |-> res.core.err, status |-> res.status, token |-> res.token]

InvalidCredentialsView ==
    [err |-> <<"Auth.Login", ErrInvalidCredentials>>,
     status |-> Status("InvalidArgument", "invalid credentials"),
     token |-> <<>>]

----------------------------------------------------------------------------
(* C1: a Login for an email that is not in the directory and a Login for an *)
(* existing email with a wrong password both fail with                      *)
(* auth.ErrInvalidCredentials and never with a user-not-found kind, and the *)
(* client observes the same error, status and (empty) token in the two      *)
(* cases, whatever the emails, passwords and app ids are.                   *)
C1_LoginFailuresIndistinguishable ==
    /\ (Handled("Login") /\ last.faults[1] = NoFault
          /\ (~Known(last.before, last.email)
                \/ WrongPassword(last.before, last.email, last.password)))
       => /\ CallerView(last.res) = InvalidCredentialsView
          /\ Is(last.res.core.err, ErrInvalidCredentials)
          /\ ~Is(last.res.core.err, ErrUserNotFound)
          /\ ~Is(last.res.core.err, storage_ErrUserNotFound)
    /\ \A e1 \in Emails \ {""}, e2 \in Emails \ {""} :
       \A p1 \in Passwords \ {""}, p2 \in Passwords \ {""} :
       \A a1 \in AppIDs \ {0}, a2 \in AppIDs \ {0} :
          (~Known(users, e1) /\ WrongPassword(users, e2, p2))
          => CallerView(serverAPI_Login(e1, p1, a1, NoFault, NoFault, 0))
               = CallerView(serverAPI_Login(e2, p2, a2, NoFault, NoFault, 0))

(* A Login with a wrong password was refused while another email is unknown *)
C1_Witness ==
    /\ Handled("Login") /\ last.faults[1] = NoFault
    /\ WrongPassword(last.before, last.email, last.password)
    /\ \E e \in Emails \ {""} : ~Known(users, e)
    /\ CallerView(last.res) = InvalidCredentialsView

(* C2: a Login with an existing email and its correct password but an app   *)
(* id the directory does not hold fails with auth.ErrInvalidAppID, which is *)
(* not auth.ErrInvalidCredentials, and returns no token.                    *)
C2_UnknownAppIsInvalidAppID ==
    (Handled("Login") /\ NoFaults
       /\ RightPassword(last.before, last.email, last.password)
       /\ ~Provisioned(last.appID))
    => /\ Is(last.res.core.err, ErrInvalidAppID)
       /\ ~Is(last.res.core.err, ErrInvalidCredentials)
       /\ last.res.core.token = <<>>
       /\ last.res.token = <<>>

(* C3: in every Login the credential check precedes the app lookup: the     *)
(* app lookup is made only after the user lookup succeeded and the password *)
(* verified, the token issuer only after the app lookup, and a Login with   *)
(* bad credentials and an unknown app id fails with                         *)
(* auth.ErrInvalidCredentials without consulting either.                    *)
C3_CredentialsBeforeApp ==
    Handled("Login") =>
       LET calls == last.res.core.calls
       IN  /\ Len(calls) >= 1 /\ calls[1] = "User"
           /\ \A i \in 1..Len(calls) :
                 /\ calls[i] = "App" =>
                       /\ i = 3 /\ calls[2] = "ComparePassword"
                       /\ last.faults[1] = NoFault
                       /\ RightPassword(last.before, last.email, last.password)
                 /\ calls[i] = "NewToken" => (i = 4 /\ calls[3] = "App")
           /\ (last.faults[1] = NoFault
                 /\ ~RightPassword(last.before, last.email, last.password)
                 /\ ~Provisioned(last.appID))
              => /\ Is(last.res.core.err, ErrInvalidCredentials)
                 /\ ~Called(last.res, "App")
                 /\ ~Called(last.res, "NewToken")

(* A Login with a wrong password and an unprovisioned app id was refused    *)
C3_Witness ==
    /\ Handled("Login") /\ last.faults[1] = NoFault
    /\ WrongPassword(last.before, last.email, last.password)
    /\ ~Provisioned(last.appID)
    /\ last.res.core.calls = <<"User", "ComparePassword">>
    /\ Is(last.res.core.err, ErrInvalidCredentials)

(* C4: Register with an email that is already in the directory fails with  *)
(* auth.ErrUserExists, returns no user id and leaves the rows of table      *)
(* users unchanged.                                                         *)
C4_DuplicateEmailIsUserExists ==
    (Handled("Register") /\ Known(last.before, last.email)
       /\ Called(last.res, "SaveUser") /\ last.faults[1][1] \notin {"prepare", "exec"})
    => /\ Is(last.res.core.err, ErrUserExists)
       /\ last.res.core.userID = 0
       /\ last.res.userID = 0
       /\ users = last.before

(* C5: IsAdmin for a user id that is not in the directory fails with        *)
(* auth.ErrUserNotFound, the service's own kind, and reports no flag other  *)
(* than false.                                                              *)
C5_UnknownUserIsUserNotFound ==
    (Handled("IsAdmin") /\ NoFaults /\ ~\E u \in last.before : u.id = last.userID)
    => /\ Is(last.res.core.err, ErrUserNotFound)
       /\ last.res.core.isAdmin = FALSE
       /\ last.res.isAdmin = FALSE

(* C6: the error Login, Register or IsAdmin returns to the transport never  *)
(* carries a storage-level kind (storage.ErrUserNotFound,                   *)
(* storage.ErrUserExists, storage.ErrAppNotFound).                          *)
C6_NoStorageKindAtTransport ==
    last.res.called => \A k \in StorageKinds : ~Is(last.res.core.err, k)

(* The app holds a key the issuer can parse and sign with *)
UsableApp(appID) ==
    \E a \in apps :
        /\ a.id = appID
        /\ ParseRSAPrivateKey(a.private_key).err = Nil
        /\ ParseRSAPrivateKey(a.private_key).key.signable

ClaimsOf(token) == token[1].claims

(* C7: the id a successful Register(e, p) returns is the id of the row it   *)
(* created for e and p; when no directory call fails, a Login(e, p, a) for  *)
(* such a row and an app a provisioned with a usable key succeeds, and its  *)
(* token carries exactly uid = that id, email = e, app_id = a and exp = the *)
(* instant issue time + tokenTTL in Unix seconds; and every token issued    *)
(* has the four claims populated, taken from the user and the app of the    *)
(* request and signed with that app's key.                                  *)
C7_TokenCarriesExactClaims ==
    /\ (Handled("Register") /\ last.res.core.err = Nil)
       => \E u \in users \ last.before :
             /\ u.id = last.res.userID /\ u.id # 0
             /\ u.email = last.email
             /\ KnownPassword(u, last.password)
    /\ (Handled("Login") /\ NoFaults
          /\ RightPassword(last.before, last.email, last.password)
          /\ UsableApp(last.appID))
       => /\ last.res.core.err = Nil
          /\ last.res.status.code = "OK"
          /\ Len(last.res.token) = 1
          /\ \E u \in last.before :
                /\ u.email = last.email
                /\ ClaimsOf(last.res.token)
                     = [uid |-> u.id, email |-> last.email, app_id |-> last.appID,
                        exp |-> Unix(last.at + tokenTTL)]
    /\ (Handled("Login") /\ last.res.core.token # <<>>)
       => /\ Len(last.res.core.token) = 1
          /\ last.res.token = last.res.core.token
          /\ LET c == ClaimsOf(last.res.core.token)
             IN  /\ DOMAIN c = {"uid", "email", "app_id", "exp"}
                 /\ c.uid # 0 /\ c.email # "" /\ c.app_id # 0
                 /\ \E u \in last.before : u.email = last.email /\ u.id = c.uid
                 /\ c.email = last.email
                 /\ c.app_id = last.appID
                 /\ c.exp = Unix(last.at + tokenTTL)
                 /\ \E a \in apps :
                       a.id = last.appID /\ last.res.core.token[1].sig = a.private_key.key

(* The second of two registered users logged in and got a token *)
C7_Witness ==
    /\ Handled("Login") /\ NoFaults
    /\ Cardinality(last.before) = 2
    /\ last.res.token # <<>>
    /\ ClaimsOf(last.res.token).uid = 2
    /\ last.at > 0

(* C8: for every token issued, whatever tokenTTL the service was built      *)
(* with, the exp claim is strictly later than the issue time and differs    *)
(* from it by exactly tokenTTL.                                             *)
C8_ExpiryLaterByExactlyTTL ==
    (Handled("Login") /\ last.res.core.token # <<>>)
    => LET exp == ClaimsOf(last.res.core.token).exp
       IN  /\ exp > Unix(last.at)
           /\ (exp - Unix(last.at)) * TicksPerSecond = tokenTTL

(* C9: no partial success.  Every Login returns a non-empty token and no    *)
(* error, or an empty token and an error; every Register adds exactly one   *)
(* row and returns its id with no error, or returns an error and adds no    *)
(* row.                                                                     *)
C9_NoPartialSuccess ==
    /\ Handled("Login")
       => \/ last.res.core.token # <<>> /\ last.res.core.err = Nil
          \/ last.res.core.token = <<>> /\ last.res.core.err # Nil
    /\ Handled("Register")
       => \/ /\ last.res.core.err = Nil
             /\ \E row \in users \ last.before :
                   /\ users = last.before \cup {row}
                   /\ row.id = last.res.core.userID
          \/ /\ last.res.core.err # Nil
             /\ last.res.core.userID = 0
             /\ users = last.before

(* C10: when the deadline expires during a directory call made by Login,    *)
(* Register or IsAdmin, the error returned is context.DeadlineExceeded      *)
(* under errors.Is, is none of the domain kinds, and the transport answers  *)
(* with the DeadlineExceeded status.                                        *)
C10_DeadlinePropagates ==
    (last.res.called /\ DeadlineExpired)
    => /\ Is(last.res.core.err, context_DeadlineExceeded)
       /\ \A k \in DomainKinds : ~Is(last.res.core.err, k)
       /\ last.res.status = Status("DeadlineExceeded", "operation timeout")

(* The deadline expired in the app lookup of a Login with good credentials  *)
C10_Witness ==
    /\ Handled("Login")
    /\ last.faults[2][2] = "deadline"
    /\ RightPassword(last.before, last.email, last.password)
    /\ last.res.status.code = "DeadlineExceeded"

(* The status code the contract gives each kind of error *)
KindCode(err) ==
    IF Is(err, ErrInvalidCredentials) \/ Is(err, ErrInvalidAppID) THEN "InvalidArgument"
    ELSE IF Is(err, ErrUserExists) THEN "AlreadyExists"
    ELSE IF Is(err, ErrUserNotFound) THEN "NotFound"
    ELSE IF Is(err, context_DeadlineExceeded) THEN "DeadlineExceeded"
    ELSE "Internal"

(* The one message a handler sends with the Internal status *)
OpaqueMsg(op) ==
    IF op = "Login" THEN "failed to login"
    ELSE IF op = "Register" THEN "failed to register user"
    ELSE "failed to check admin status"

(* The kinds a service operation is specified to fail with, besides the     *)
(* expiry of the deadline and the failures of its collaborators             *)
KindsOf(op) ==
    IF op = "Login" THEN {ErrInvalidCredentials, ErrInvalidAppID}
    ELSE IF op = "Register" THEN {ErrUserExists}
    ELSE {ErrUserNotFound}

(* Failures of the collaborators that reach the transport wrapped *)
OtherCauses ==
    StorageKinds \cup {"sqlite3.Error", "rand.Read", "password cannot be empty",
                       "x509", "rsa", "unexpected data after PEM block"}

(* The errors an operation may hand to its handler: a kind or a cause,      *)
(* wrapped once by the service or twice, by the collaborator as well        *)
ErrorsOf(op) ==
    LET leaves == KindsOf(op) \cup {context_DeadlineExceeded} \cup OtherCauses
    IN  {<<"Auth." \o op, k>> : k \in leaves}
          \cup {<<"Auth." \o op, "storage.sqlite", k>> : k \in leaves}

StatusOf(op, err) ==
    IF op = "Login" THEN LoginStatus(err)
    ELSE IF op = "Register" THEN RegisterStatus(err)
    ELSE IsAdminStatus(err)

(* C13: the status a handler answers with is decided by the kind of the     *)
(* error the service returned: InvalidArgument for auth.ErrInvalidCredentials *)
(* and auth.ErrInvalidAppID, AlreadyExists for auth.ErrUserExists, NotFound *)
(* for auth.ErrUserNotFound, DeadlineExceeded for context.DeadlineExceeded, *)
(* Internal for every other error, and the message sent with Internal is    *)
(* the handler's fixed text, the same for every error and no part of it.    *)
(* This holds of the error of every call handled and of every error an      *)
(* operation may return.                                                    *)
C13_StatusByKind ==
    /\ (last.res.called /\ last.res.core.err # Nil)
       => /\ last.res.status.code = KindCode(last.res.core.err)
          /\ last.res.status.code = "Internal"
             => /\ last.res.status.msg = OpaqueMsg(last.op)
                /\ \A i \in 1..Len(last.res.core.err) :
                      last.res.core.err[i] # last.res.status.msg
    /\ \A op \in {"Login", "Register", "IsAdmin"} :
       \A err \in ErrorsOf(op) :
          /\ StatusOf(op, err).code = KindCode(err)
          /\ StatusOf(op, err).code = "Internal"
             => /\ StatusOf(op, err).msg = OpaqueMsg(op)
                /\ \A i \in 1..Len(err) : err[i] # StatusOf(op, err).msg

(* A Login whose app lookup failed in the driver was answered with Internal *)
C13_Witness ==
    /\ Handled("Login")
    /\ last.faults[2] = <<"scan", "io">>
    /\ Is(last.res.core.err, "sqlite3.Error")
    /\ last.res.status = Status("Internal", "failed to login")

(* The collaborators of an operation, in the order it calls them *)
Pipeline(op) ==
    IF op = "Login" THEN <<"User", "ComparePassword", "App", "NewToken">>
    ELSE IF op = "Register" THEN <<"HashPassword", "SaveUser">>
    ELSE <<"IsAdmin">>

(* C14: no retry.  The collaborators a call invokes are an initial part of  *)
(* its operation's sequence of collaborators, so each one is invoked at     *)
(* most once; a call that succeeds has invoked all of them; and a call in   *)
(* which a collaborator fails ends there, that collaborator being the last  *)
(* one invoked.                                                             *)
C14_NoRetry ==
    last.res.called =>
       LET calls == last.res.core.calls
           err == last.res.core.err
       IN  /\ Len(calls) >= 1
           /\ Len(calls) <= Len(Pipeline(last.op))
           /\ \A i \in 1..Len(calls) : calls[i] = Pipeline(last.op)[i]
           /\ \A i \in 1..Len(calls), j \in 1..Len(calls) : calls[i] = calls[j] => i = j
           /\ err = Nil => calls = Pipeline(last.op)
           /\ Len(calls) < Len(Pipeline(last.op)) => err # Nil
           /\ last.op = "Login" =>
                 /\ (last.faults[1] # NoFault \/ ~Known(last.before, last.email))
                    => (calls = <<"User">> /\ err # Nil)
                 /\ (last.faults[1] = NoFault
                       /\ WrongPassword(last.before, last.email, last.password))
                    => (calls = <<"User", "ComparePassword">> /\ err # Nil)
                 /\ (Called(last.res, "App")
                       /\ (last.faults[2] # NoFault \/ ~Provisioned(last.appID)))
                    => (calls = <<"User", "ComparePassword", "App">> /\ err # Nil)
                 /\ (Called(last.res, "NewToken") /\ ~UsableApp(last.appID))
                    => err # Nil
           /\ last.op = "Register" =>
                 /\ last.rnd = "rand_err" => (calls = <<"HashPassword">> /\ err # Nil)
                 /\ (last.rnd # "rand_err"
                       /\ (last.faults[1] # NoFault \/ Known(last.before, last.email)))
                    => (calls = <<"HashPassword", "SaveUser">> /\ err # Nil)
           /\ last.op = "IsAdmin" =>
                 (last.faults[1] # NoFault => (calls = <<"IsAdmin">> /\ err # Nil))

(* A Register whose INSERT failed in the driver ended after that one        *)
(* SaveUser call                                                            *)
C14_Witness ==
    /\ Handled("Register")
    /\ last.faults[1] = <<"exec", "deadline">>
    /\ last.res.core.calls = <<"HashPassword", "SaveUser">>
    /\ last.res.core.err # Nil
    /\ users = last.before

(* The private key texts an app row may hold: no PEM block at all, a block  *)
(* alone or followed by further bytes, holding a PKCS#1 key or another      *)
(* encoding                                                                 *)
PemTexts ==
    [block : BOOLEAN, rest : {0, 1}, der : {"pkcs1", "pkcs8"}, signable : {TRUE},
     key : {1}]

(* The text is one well-formed key block and nothing else *)
WellFormedKey(pemKey) == pemKey.block /\ pemKey.rest = 0 /\ pemKey.der = "pkcs1"

AppWithKey(pemKey) == [ID |-> 1, Name |-> "Test", PrivateKey |-> pemKey, PublicKey |-> 1]

SomeUser ==
    [ID |-> 1, Email |-> "a@x.com", PasswordHash |-> IDKey("secret123", NoBytes, keyLength),
     PasswordSalt |-> NoBytes]

(* C17: for every private key text that is not one well-formed key block,   *)
(* or that is followed by further data, NewToken returns the empty token    *)
(* string and the error "failed to parse private key" wrapping the error of *)
(* ParseRSAPrivateKey; and a Login that reaches the issuer for an app       *)
(* holding such a text returns that error and an empty token, to the        *)
(* handler and to the client.                                               *)
C17_UnusableKeyNoToken ==
    /\ \A pemKey \in PemTexts, t \in Times :
          ~WellFormedKey(pemKey)
          => LET pk == ParseRSAPrivateKey(pemKey)
                 tr == NewToken(SomeUser, AppWithKey(pemKey), tokenTTL, t)
             IN  /\ pk.err # Nil
                 /\ tr.token = <<>>
                 /\ tr.err = Wrap("failed to parse private key", pk.err)
    /\ (Handled("Login") /\ Called(last.res, "NewToken")
          /\ \E a \in apps : a.id = last.appID /\ ~WellFormedKey(a.private_key))
       => /\ Is(last.res.core.err, "failed to parse private key")
          /\ \E a \in apps :
                /\ a.id = last.appID
                /\ last.res.core.err
                     = Wrap("Auth.Login", Wrap("failed to parse private key",
                                               ParseRSAPrivateKey(a.private_key).err))
          /\ last.res.core.token = <<>>
          /\ last.res.token = <<>>
          /\ last.res.status.code # "OK"

(* A registered user logged in with the right password to the app whose key *)
(* text has data after the block, and got an error and no token             *)
C17_Witness ==
    /\ Handled("Login") /\ NoFaults
    /\ RightPassword(last.before, last.email, last.password)
    /\ last.appID = 2
    /\ Is(last.res.core.err, "unexpected data after PEM block")
    /\ last.res.token = <<>>

(* A required field of the last request is empty or zero *)
MissingField ==
    \/ last.op = "Login" /\ (last.email = "" \/ last.password = "" \/ last.appID = 0)
    \/ last.op = "Register" /\ (last.email = "" \/ last.password = "")
    \/ last.op = "IsAdmin" /\ last.userID = 0

(* C18: a Login with an empty email, an empty password or app id 0, a       *)
(* Register with an empty email or password, and an IsAdmin with user id 0  *)
(* are answered with InvalidArgument; the service is not invoked, no        *)
(* collaborator is called, the rows of table users are what they were, and  *)
(* no token, id or flag is returned.                                        *)
C18_RequiredFieldsValidated ==
    MissingField
    => /\ last.res.status.code = "InvalidArgument"
       /\ ~last.res.called
       /\ last.res.core = NoCore
       /\ last.res.core.calls = <<>>
       /\ users = last.before
       /\ last.res.token = <<>> /\ last.res.userID = 0 /\ last.res.isAdmin = FALSE

(* A Register with an empty password was rejected while a user is registered *)
C18_Witness ==
    /\ last.op = "Register"
    /\ last.email # "" /\ last.password = ""
    /\ last.res.status = Status("InvalidArgument", "password is required")
    /\ ~last.res.called
    /\ users # {} /\ users = last.before

(* C19: frame.  No step changes table apps; every row of table users is    *)
(* still there after every step, with the same id, email, hash, salt and    *)
(* flag; a Login and an IsAdmin leave table users as it was; a Register     *)
(* adds at most one row, for the email of the request.                      *)
C19_RecordsFrame ==
    [][ /\ apps' = apps
        /\ users \subseteq users'
        /\ last'.op \in {"Login", "IsAdmin"} => users' = users
        /\ last'.op = "Register"
           => /\ Cardinality(users' \ users) <= 1
              /\ \A u \in users' \ users : u.email = last'.email
      ]_vars

(* A second user was registered and the row of the first is still there *)
C19_Witness ==
    /\ Handled("Register")
    /\ last.res.core.err = Nil
    /\ Cardinality(last.before) = 1
    /\ last.before \subseteq users
    /\ Cardinality(users) = 2
    /\ apps = ProvisionedApps

----------------------------------------------------------------------------
(* Concurrent callers.  The gRPC server runs every request on a goroutine   *)
(* of its own.  A Register call shares nothing with another one but table   *)
(* users, which it reaches through the single INSERT statement of SaveUser; *)
(* SQLite executes a statement atomically.  A call is therefore under way   *)
(* from its arrival (RegisterCall) to the INSERT (RegisterExec), and the     *)
(* calls of the other callers may run in between.                           *)

NumCallers == 2

Callers == 1..NumCallers

Idle == [pc |-> "idle"]

InitConc ==
    /\ users = {}
    /\ apps = ProvisionedApps
    /\ tokenTTL = TicksPerSecond
    /\ last = NoRequest
    /\ inflight = [c \in Callers |-> Idle]
    /\ granted = {}
    /\ probe = NoProbe

(* The request of caller c arrives; its goroutine starts *)
RegisterCall(c) ==
    /\ inflight[c].pc = "idle"
    /\ \E email \in Emails \ {""}, password \in Passwords \ {""} :
       \E rnd \in RandReads(email, password) :
          inflight' = [inflight EXCEPT ![c] = [pc |-> "called", email |-> email,
                                               password |-> password, rnd |-> rnd]]
    /\ UNCHANGED <<users, apps, tokenTTL, last, granted, probe>>

(* The handler of caller c runs to its end against the rows of this moment *)
RegisterExec(c) ==
    /\ inflight[c].pc = "called"
    /\ LET in == inflight[c]
       IN  \E fSave \in SaveUserFaults(in.email, in.password, in.rnd) :
              LET res == serverAPI_Register(in.email, in.password, in.rnd, fSave)
              IN  /\ users' = res.users
                  /\ inflight' = [inflight EXCEPT ![c] =
                                     [pc |-> "returned", email |-> in.email,
                                      password |-> in.password, fault |-> fSave,
                                      userID |-> res.userID, err |-> res.core.err,
                                      status |-> res.status]]
    /\ UNCHANGED <<apps, tokenTTL, last, granted, probe>>

(* Caller c has read the response and may call again *)
RegisterReturn(c) ==
    /\ inflight[c].pc = "returned"
    /\ inflight' = [inflight EXCEPT ![c] = Idle]
    /\ UNCHANGED <<users, apps, tokenTTL, last, granted, probe>>

NextConc ==
    \E c \in Callers : RegisterCall(c) \/ RegisterExec(c) \/ RegisterReturn(c)

SpecConc == InitConc /\ [][NextConc]_vars

(* Under any interleaving no two rows of table users hold the same email *)
UniqueEmails == \A u \in users, v \in users : u.email = v.email => u = v

Returned(c) == inflight[c].pc = "returned"

(* The call of caller c has returned and its INSERT was executed: the salt  *)
(* was generated and no step of SaveUser failed in the driver.              *)
ReachedInsert(c) ==
    /\ Returned(c)
    /\ inflight[c].fault = NoFault
    /\ ~Is(inflight[c].err, "rand.Read")

(* C11: under any interleaving of concurrent Register calls no two rows of  *)
(* table users hold the same email, and of the calls for one email whose    *)
(* INSERT was executed at most one returns a user id and every other one    *)
(* fails with auth.ErrUserExists.                                           *)
C11_ConcurrentRegisterUnique ==
    /\ UniqueEmails
    /\ \A c \in Callers, d \in Callers :
          (c # d /\ ReachedInsert(c) /\ ReachedInsert(d)
             /\ inflight[c].email = inflight[d].email)
          => /\ ~(inflight[c].userID # 0 /\ inflight[d].userID # 0)
             /\ inflight[c].userID = 0 => Is(inflight[c].err, ErrUserExists)

(* What the directory alone decides of C11: one email, one row; at most one *)
(* of the calls returns an id, whatever fails; a call whose INSERT was      *)
(* executed and that returns no id fails with storage.ErrUserExists.        *)
AtMostOneWinner ==
    /\ UniqueEmails
    /\ \A c \in Callers, d \in Callers :
          (c # d /\ Returned(c) /\ Returned(d)
             /\ inflight[c].email = inflight[d].email)
          => ~(inflight[c].userID # 0 /\ inflight[d].userID # 0)
    /\ \A c \in Callers :
          (ReachedInsert(c) /\ inflight[c].userID = 0)
          => Is(inflight[c].err, storage_ErrUserExists)

(* Two calls for one email were under way together; one of them won *)
RaceDecided ==
    \E c \in Callers, d \in Callers :
        /\ c # d /\ ReachedInsert(c) /\ ReachedInsert(d)
        /\ inflight[c].email = inflight[d].email
        /\ inflight[c].userID # 0
        /\ inflight[d].userID = 0

----------------------------------------------------------------------------
(* Administration out of band.  No statement of the service writes column   *)
(* is_admin: a row gets the column's default, FALSE, from the INSERT of     *)
(* SaveUser, and an administrator is made by an UPDATE issued directly on   *)
(* the database.                                                            *)

InitAdmin ==
    /\ users = {}
    /\ apps = ProvisionedApps
    /\ tokenTTL = TicksPerSecond
    /\ last = NoRequest
    /\ inflight = <<>>
    /\ granted = {}
    /\ probe = NoProbe

GrantAdmin ==
    \E u \in users :
        /\ ~u.is_admin
        /\ users' = (users \ {u}) \cup {[u EXCEPT !.is_admin = TRUE]}
        /\ granted' = granted \cup {u.id}
        /\ UNCHANGED <<apps, tokenTTL, last, inflight, probe>>

NextAdmin == Login \/ Register \/ CheckAdmin \/ GrantAdmin

SpecAdmin == InitAdmin /\ [][NextAdmin]_vars

(* C12: a row created by Register holds is_admin = FALSE, and no Register,  *)
(* Login or IsAdmin changes the flag of any row: it is TRUE only for the    *)
(* users granted out of band.  IsAdmin for the id of an existing row        *)
(* succeeds, when no directory call fails, and returns the flag stored in   *)
(* that row, hence false for every user never granted.                      *)
C12_IsAdminReturnsStoredFlag ==
    /\ \A u \in users : u.is_admin = (u.id \in granted)
    /\ (Handled("Register") /\ last.res.core.err = Nil)
       => \E u \in last.res.users \ last.before :
             u.id = last.res.userID /\ u.is_admin = FALSE
    /\ (Handled("IsAdmin") /\ NoFaults)
       => \A u \in last.before :
             u.id = last.userID
             => /\ last.res.core.err = Nil
                /\ last.res.status.code = "OK"
                /\ last.res.core.isAdmin = u.is_admin
                /\ last.res.isAdmin = u.is_admin
                /\ u.id \notin granted => last.res.isAdmin = FALSE

(* IsAdmin answered false for the second registered user, who was never     *)
(* granted, after the first one had been made an administrator              *)
C12_Witness ==
    /\ Handled("IsAdmin") /\ NoFaults
    /\ last.userID = 2 /\ 2 \notin granted /\ 1 \in granted
    /\ \E u \in last.before : u.id = 1 /\ u.is_admin
    /\ \E u \in last.before : u.id = 2
    /\ last.res.status.code = "OK"
    /\ last.res.isAdmin = FALSE

----------------------------------------------------------------------------
(* The password hasher called directly, with every password, with what      *)
(* rand.Read may produce, and with a stored hash and salt that are the ones *)
(* HashPassword produced or differ from them in one byte or in length.      *)

HashRand == {"s1", "s2", "rand_err"}

(* b with its i-th byte changed *)
FlipByte(b, i) == Bytes(b.len, <<"flip", i, b.val>>)

(* b cut or extended by d bytes *)
Resize(b, d) == Bytes(b.len + d, <<"resize", d, b.val>>)

Tampers ==
    {<<"none", 0>>}
      \cup {<<"hash_byte", i>> : i \in {1, keyLength}}
      \cup {<<"salt_byte", i>> : i \in {1, saltLength}}
      \cup {<<"hash_len", d>> : d \in {-1, 1}}
      \cup {<<"salt_len", d>> : d \in {-saltLength, -1, 1}}

TamperedHash(data, tm) ==
    IF tm[1] = "hash_byte" THEN FlipByte(data.Hash, tm[2])
    ELSE IF tm[1] = "hash_len" THEN Resize(data.Hash, tm[2])
    ELSE data.Hash

TamperedSalt(data, tm) ==
    IF tm[1] = "salt_byte" THEN FlipByte(data.Salt, tm[2])
    ELSE IF tm[1] = "salt_len" THEN Resize(data.Salt, tm[2])
    ELSE data.Salt

InitHash ==
    /\ users = {}
    /\ apps = ProvisionedApps
    /\ tokenTTL = TicksPerSecond
    /\ last = NoRequest
    /\ inflight = <<>>
    /\ granted = {}
    /\ probe = NoProbe

HashCall ==
    /\ \E password \in Passwords, rnd \in HashRand :
          LET r == HashPassword(password, rnd)
          IN  probe' = [fn |-> "HashPassword", password |-> password, rnd |-> rnd,
                        data |-> r.data, err |-> r.err]
    /\ UNCHANGED <<users, apps, tokenTTL, last, inflight, granted>>

(* ComparePassword against what the last HashPassword produced, tampered *)
VerifyCall ==
    /\ probe.fn = "HashPassword"
    /\ probe.err = Nil
    /\ \E password \in Passwords, tm \in Tampers :
          LET salt == TamperedSalt(probe.data, tm)
              hash == TamperedHash(probe.data, tm)
          IN  probe' = [fn |-> "ComparePassword", password |-> password,
                        hashed |-> probe.password, data |-> probe.data,
                        tamper |-> tm, salt |-> salt, hash |-> hash,
                        err |-> ComparePassword(password, salt, hash)]
    /\ UNCHANGED <<users, apps, tokenTTL, last, inflight, granted>>

NextHash == HashCall \/ VerifyCall

SpecHash == InitHash /\ [][NextHash]_vars

Hashed == probe.fn = "HashPassword"

Verified == probe.fn = "ComparePassword"

Match(err) == err = Nil

Mismatch(err) == err = <<"passwords do not match">>

EmptyInput(err) == err = <<"password cannot be empty">>

InvalidInputShape(err) == err \in {<<"invalid salt length">>, <<"invalid hash length">>}

(* C15: HashPassword of a non-empty password, when the salt is generated,   *)
(* produces a hash of keyLength bytes and a salt of saltLength bytes;       *)
(* ComparePassword of the same password with that salt and hash reports a   *)
(* match; and with the same password and a hash or a salt that differs     *)
(* from the produced one in one byte, the length unchanged, it reports a    *)
(* mismatch.                                                                *)
C15_HashRoundTrip ==
    /\ (Hashed /\ probe.password # "" /\ probe.rnd # "rand_err")
       => /\ probe.err = Nil
          /\ probe.data.Hash.len = keyLength
          /\ probe.data.Salt.len = saltLength
          /\ Match(ComparePassword(probe.password, probe.data.Salt, probe.data.Hash))
    /\ (Verified /\ probe.password = probe.hashed)
       => /\ probe.tamper[1] = "none" => Match(probe.err)
          /\ probe.tamper[1] \in {"hash_byte", "salt_byte"}
             => /\ probe.hash.len = probe.data.Hash.len
                /\ probe.salt.len = probe.data.Salt.len
                /\ probe.hash # probe.data.Hash \/ probe.salt # probe.data.Salt
                /\ Mismatch(probe.err)

(* The password was verified against its hash with the last byte of the     *)
(* salt changed                                                             *)
C15_Witness ==
    /\ Verified
    /\ probe.password = probe.hashed
    /\ probe.tamper = <<"salt_byte", saltLength>>
    /\ probe.hash = probe.data.Hash
    /\ Mismatch(probe.err)

(* C16: HashPassword of the empty password fails with "password cannot be   *)
(* empty" and produces no hash and no salt.  ComparePassword fails with an  *)
(* invalid-length error when the salt is not saltLength bytes or the hash   *)
(* not keyLength bytes long, whatever the password; it fails with "password *)
(* cannot be empty" when the password is empty and the two lengths are      *)
(* right; and it reports a match in none of these cases.                    *)
C16_HasherInputErrors ==
    /\ (Hashed /\ probe.password = "")
       => /\ EmptyInput(probe.err)
          /\ probe.data = NoPassData
    /\ Verified
       => /\ (probe.salt.len # saltLength \/ probe.hash.len # keyLength)
             => InvalidInputShape(probe.err)
          /\ (probe.password = "" /\ probe.salt.len = saltLength
                /\ probe.hash.len = keyLength)
             => EmptyInput(probe.err)
          /\ (probe.password = "" \/ probe.salt.len # saltLength
                \/ probe.hash.len # keyLength)
             => ~Match(probe.err)

(* The empty password was verified against a salt one byte short *)
C16_Witness ==
    /\ Verified
    /\ probe.password = ""
    /\ probe.tamper = <<"salt_len", -1>>
    /\ InvalidInputShape(probe.err)

----------------------------------------------------------------------------
(* Corrupted and foreign records.  A row of table users may be written or   *)
(* damaged by something other than the service, so that its salt or hash    *)
(* is not of the length HashPassword produces; and Auth.Login may be called *)
(* by a transport that does not check its arguments, with an empty          *)
(* password.                                                                *)

InitCorrupt ==
    /\ users = {}
    /\ apps = ProvisionedApps
    /\ tokenTTL = TicksPerSecond
    /\ last = NoRequest
    /\ inflight = <<>>
    /\ granted = {}
    /\ probe = NoProbe

Intact(u) == u.password_salt.len = saltLength /\ u.password_hash.len = keyLength

(* The salt or the hash of an intact row loses its last byte *)
CorruptRow ==
    \E u \in users, column \in {"password_salt", "password_hash"}, d \in {-1} :
        /\ Intact(u)
        /\ users' = (users \ {u})
                      \cup {IF column = "password_salt"
                            THEN [u EXCEPT !.password_salt = Resize(u.password_salt, d)]
                            ELSE [u EXCEPT !.password_hash = Resize(u.password_hash, d)]}
        /\ UNCHANGED <<apps, tokenTTL, last, inflight, granted, probe>>

(* Auth.Login called directly, when the clock reads 0; the user lookup may *)
(* fail, the app lookup does not                                            *)
CoreLogin ==
    \E email \in Emails \ {""}, password \in Passwords, appID \in AppIDs \ {0} :
    \E fUser \in QueryFaults, fApp \in {NoFault} :
        LET r == Auth_Login(email, password, appID, fUser, fApp, 0)
            core == [NoCore EXCEPT !.token = r.token, !.err = r.err, !.calls = r.calls]
        IN  /\ last' = [NoRequest EXCEPT !.op = "Auth.Login", !.email = email,
                          !.password = password, !.appID = appID,
                          !.faults = <<fUser, fApp>>, !.before = users,
                          !.res = [called |-> TRUE, core |-> core,
                                   status |-> LoginStatus(r.err),
                                   token |-> r.token, userID |-> 0,
                                   isAdmin |-> FALSE, users |-> users]]
            /\ UNCHANGED <<users, apps, tokenTTL, inflight, granted, probe>>

NextCorrupt == Register \/ CorruptRow \/ CoreLogin

SpecCorrupt == InitCorrupt /\ [][NextCorrupt]_vars

(* The user lookup of the last Auth.Login found a row that ComparePassword  *)
(* cannot verify against: a salt or hash of the wrong length, or an empty   *)
(* password supplied                                                        *)
Unverifiable ==
    /\ last.op = "Auth.Login"
    /\ last.faults[1] = NoFault
    /\ \E u \in last.before :
          /\ u.email = last.email
          /\ (~Intact(u) \/ last.password = "")

(* C20: when the row of an existing user holds a salt or a hash of the      *)
(* wrong length, or the password supplied is empty, Auth.Login fails with   *)
(* auth.ErrInvalidCredentials and nothing else in its error, the status is  *)
(* InvalidArgument and not Internal, no token is returned, and neither the  *)
(* app lookup nor the token issuer is invoked.                              *)
C20_VerifyFailureIsInvalidCredentials ==
    Unverifiable
    => /\ last.res.core.err = <<"Auth.Login", ErrInvalidCredentials>>
       /\ last.res.status = Status("InvalidArgument", "invalid credentials")
       /\ last.res.core.token = <<>>
       /\ last.res.core.calls = <<"User", "ComparePassword">>
       /\ ~Called(last.res, "App")
       /\ ~Called(last.res, "NewToken")

(* Auth.Login was refused for a user whose stored salt is one byte short,   *)
(* with a non-empty password and a provisioned app                          *)
C20_Witness ==
    /\ Unverifiable
    /\ last.password # ""
    /\ \E u \in last.before :
          u.email = last.email /\ u.password_salt.len = saltLength - 1
    /\ Provisioned(last.appID)
    /\ Is(last.res.core.err, ErrInvalidCredentials)

====
